---- MODULE Spec2Model ----
(***************************************************************************)
(* Model of the feature-engineering pipeline of modules/preprocessing.py   *)
(* and modules/utils.py.  A table (DataFrame) is a sequence of rows; a row *)
(* is a function from column names to values, so that an operation that    *)
(* adds a column extends the domain of every row.                          *)
(*                                                                         *)
(* Values: a date string "2024-01-dd" is the record [year, month, day];    *)
(* pd.to_datetime turns it into a day ordinal (0 = Monday 2024-01-01).     *)
(* A float column that can hold fractions (age, purchase_rate, avg_price)  *)
(* holds rationals [num, den]; its missing value is 0/0.  An integer-like  *)
(* column uses NaN (a number no column can hold), a string column NA.      *)
(***************************************************************************)
EXTENDS Integers, Sequences, FiniteSets, TLC

VARIABLES pc, transactions, customers, articles, grouped_data,
          filtered_data, reference_date, top_n, observed, purchase_rate

vars == <<pc, transactions, customers, articles, grouped_data,
          filtered_data, reference_date, top_n, observed, purchase_rate>>

(***************************************************************************)
(* Bounds of the model.                                                    *)
(***************************************************************************)
MaxTx == 3
MaxDay == 9
MaxCust == 2
MaxBinRows == 1
MaxAge == 72
MaxArt == 3
MaxElapsedTx == 3
MaxElapsedDay == 3
MaxRef == 4
MaxRateTx == 3
MaxRateCust == 2
MaxGroupedTx == 2
MaxGroupedArt == 2
MaxCount == 2
MaxTopN == 3

(***************************************************************************)
(* Missing values and generic table helpers.                               *)
(***************************************************************************)
NaN == -1000000
NA == "<NA>"
RNaN == [num |-> 0, den |-> 0]

AddCol(row, col, v) ==
    [c \in (DOMAIN row) \cup {col} |-> IF c = col THEN v ELSE row[c]]

Column(table, col) == [i \in 1..Len(table) |-> table[i][col]]

RECURSIVE SortedSeq(_)
SortedSeq(S) ==
    IF S = {} THEN <<>>
    ELSE LET m == CHOOSE x \in S : \A y \in S : x <= y
         IN <<m>> \o SortedSeq(S \ {m})

SetMax(S) == CHOOSE x \in S : \A y \in S : y <= x
SetMin(S) == CHOOSE x \in S : \A y \in S : x <= y

(* Restriction of a row to some of its columns.                            *)
Project(row, cols) == [c \in cols |-> row[c]]

(* pd.merge(left, right, on=on, how=how): in the order of the left rows,   *)
(* one output row per matching right row (in the order of the right rows); *)
(* a left row without a match is kept by how="left", its new columns       *)
(* missing (fill), and dropped by how="inner".                             *)
RECURSIVE MergeFrom(_, _, _, _, _, _)
MergeFrom(left, right, on, how, fill, i) ==
    IF i > Len(left) THEN <<>>
    ELSE LET m == SortedSeq({j \in 1..Len(right) :
                        \A c \in on : right[j][c] = left[i][c]})
             here == IF m = <<>>
                     THEN IF how = "left" THEN <<left[i] @@ fill>> ELSE <<>>
                     ELSE [k \in 1..Len(m) |-> left[i] @@ right[m[k]]]
         IN here \o MergeFrom(left, right, on, how, fill, i + 1)

merge(left, right, on, how, fill) == MergeFrom(left, right, on, how, fill, 1)

(***************************************************************************)
(* Names are strings of space-separated words: the sequence of their words.*)
(* Joining two names with a single space is the concatenation of the word  *)
(* sequences.  Words are ordered as listed.                                *)
(***************************************************************************)
Words == <<"a", "b", "c", "d", "e">>
WordRank(w) == CHOOSE k \in 1..Len(Words) : Words[k] = w

RECURSIVE NameLess(_, _)
NameLess(x, y) ==
    IF y = <<>> THEN FALSE
    ELSE IF x = <<>> THEN TRUE
    ELSE IF x[1] # y[1] THEN WordRank(x[1]) < WordRank(y[1])
    ELSE NameLess(Tail(x), Tail(y))

(* groupby sorts its keys: a triple of names, lexicographically.           *)
TripleLess(s, t) ==
    \/ NameLess(s[1], t[1])
    \/ s[1] = t[1] /\ NameLess(s[2], t[2])
    \/ s[1] = t[1] /\ s[2] = t[2] /\ NameLess(s[3], t[3])

RECURSIVE SortedTriples(_)
SortedTriples(S) ==
    IF S = {} THEN <<>>
    ELSE LET m == CHOOSE x \in S : \A y \in S \ {x} : TripleLess(x, y)
         IN <<m>> \o SortedTriples(S \ {m})

(***************************************************************************)
(* Rationals [num, den] with den > 0, kept in lowest terms; 0/0 is NaN.    *)
(***************************************************************************)
RECURSIVE GCD(_, _)
GCD(a, b) == IF b = 0 THEN a ELSE GCD(b, a % b)

Abs(n) == IF n < 0 THEN 0 - n ELSE n

Normalize(n, d) ==
    LET g == GCD(Abs(n), d) IN [num |-> n \div g, den |-> d \div g]

R(n) == [num |-> n, den |-> 1]
IsNaNR(x) == x.den = 0
RLt(a, b) == a.num * b.den < b.num * a.den
RLe(a, b) == a.num * b.den <= b.num * a.den
RAdd(a, b) == Normalize(a.num * b.den + b.num * a.den, a.den * b.den)
RDiv(a, k) == Normalize(a.num, a.den * k)

RECURSIVE SortedRationals(_)
SortedRationals(s) ==
    IF s = <<>> THEN <<>>
    ELSE LET k == CHOOSE i \in 1..Len(s) : \A j \in 1..Len(s) : RLe(s[i], s[j])
         IN <<s[k]>> \o
            SortedRationals(SubSeq(s, 1, k - 1) \o SubSeq(s, k + 1, Len(s)))

RECURSIVE RSum(_)
RSum(s) == IF s = <<>> THEN R(0) ELSE RAdd(s[1], RSum(Tail(s)))

(* Series.median() / .mean(): missing values are skipped; NaN if none left *)
Median(s) ==
    LET vals == SortedRationals(SelectSeq(s, LAMBDA x : ~IsNaNR(x)))
        n == Len(vals)
    IN IF n = 0 THEN RNaN
       ELSE IF n % 2 = 1 THEN vals[(n + 1) \div 2]
       ELSE RDiv(RAdd(vals[n \div 2], vals[n \div 2 + 1]), 2)

Mean(s) ==
    LET vals == SelectSeq(s, LAMBDA x : ~IsNaNR(x))
    IN IF vals = <<>> THEN RNaN ELSE RDiv(RSum(vals), Len(vals))

(***************************************************************************)
(* Dates.                                                                  *)
(***************************************************************************)
DateStrings == [year : {2024}, month : {1}, day : 1..MaxDay]

to_datetime(s) == s.day - 1

DayOfWeek(d) == d % 7

(* Label of the 'W' (W-SUN) resample bin of day d: the bin is closed and   *)
(* labelled on its right edge, the Sunday on or after d.                   *)
ResampleLabel(d) == d + (6 - DayOfWeek(d))

(* Start timestamp of the W-SUN period containing d: its Monday.           *)
PeriodStart(d) == d - DayOfWeek(d)

(***************************************************************************)
(* weekly_aggregation                                                      *)
(***************************************************************************)
ResampleSize(table) ==
    LET labels == {ResampleLabel(table[i]["t_dat"]) : i \in 1..Len(table)}
        index == IF labels = {} THEN {}
                 ELSE {w \in SetMin(labels)..SetMax(labels) :
                          DayOfWeek(w) = 6}
    IN [w \in index |->
          Cardinality({i \in 1..Len(table) :
                          ResampleLabel(table[i]["t_dat"]) = w})]

MapLookup(dict, key) == IF key \in DOMAIN dict THEN dict[key] ELSE NaN

weekly_aggregation(table) ==
    LET dated == [i \in 1..Len(table) |->
                    [table[i] EXCEPT !["t_dat"] = to_datetime(@)]]
        weekly_data_map == ResampleSize(dated)
        weeked == [i \in 1..Len(dated) |->
                     AddCol(dated[i], "week", PeriodStart(dated[i]["t_dat"]))]
    IN [i \in 1..Len(weeked) |->
          AddCol(weeked[i], "weekly_transactions",
                 MapLookup(weekly_data_map, weeked[i]["week"]))]

RawTransaction(d, c, a) ==
    [t_dat |-> d, customer_id |-> c, article_id |-> a]

WeeklyInputs(maxRows) ==
    UNION {[1..n -> {RawTransaction(d, 1, 10) : d \in DateStrings}] :
              n \in 0..maxRows}

InitWeekly ==
    /\ pc = "loaded"
    /\ transactions \in WeeklyInputs(MaxTx)
    /\ customers = <<>>
    /\ articles = <<>>
    /\ grouped_data = <<>>
    /\ filtered_data = <<>>
    /\ reference_date = NaN
    /\ top_n = NaN
    /\ observed = FALSE
    /\ purchase_rate = <<>>

WeeklyAggregation ==
    /\ pc = "loaded"
    /\ transactions' = weekly_aggregation(transactions)
    /\ pc' = "weekly_aggregation"
    /\ UNCHANGED <<customers, articles, grouped_data, filtered_data,
                   reference_date, top_n, observed, purchase_rate>>

SpecWeekly == InitWeekly /\ [][WeeklyAggregation]_vars

(***************************************************************************)
(* handle_missing_values                                                   *)
(***************************************************************************)
fillna(v, missing, default) == IF v = missing THEN default ELSE v

club_member_default(row) ==
    IF row["club_member_status"] = NA
           /\ row["fashion_news_frequency"] = "Regularly"
    THEN "ACTIVE"
    ELSE IF row["club_member_status"] = NA THEN "NON-ACTIVE"
    ELSE row["club_member_status"]

handle_missing_values(table) ==
    LET t1 == [i \in 1..Len(table) |->
                 [table[i] EXCEPT !["FN"] = fillna(@, NaN, 0)]]
        t2 == [i \in 1..Len(t1) |->
                 [t1[i] EXCEPT !["Active"] = fillna(@, NaN, 0)]]
        t3 == [i \in 1..Len(t2) |->
                 [t2[i] EXCEPT !["fashion_news_frequency"] =
                                  fillna(@, NA, "None")]]
        median == Median(Column(t3, "age"))
        t4 == [i \in 1..Len(t3) |->
                 [t3[i] EXCEPT !["age"] = fillna(@, RNaN, median)]]
    IN [i \in 1..Len(t4) |->
          [t4[i] EXCEPT !["club_member_status"] = club_member_default(t4[i])]]

(***************************************************************************)
(* create_age_bins                                                         *)
(***************************************************************************)
age_bins == <<10, 19, 29, 39, 49, 59, 69>>
age_labels == <<"10-19", "20-29", "30-39", "40-49", "50-59", "60+">>

(* pd.cut(x, bins, labels, right=False): label i for bins[i] <= x <        *)
(* bins[i+1]; missing outside the edges and for a missing x.               *)
cut(x, bins, labels) ==
    IF IsNaNR(x) THEN NA
    ELSE LET hit == {i \in 1..Len(labels) :
                        RLe(R(bins[i]), x) /\ RLt(x, R(bins[i + 1]))}
         IN IF hit = {} THEN NA ELSE labels[CHOOSE i \in hit : TRUE]

adjust_age(age) ==
    LET a1 == IF ~IsNaNR(age) /\ RLt(age, R(20)) THEN R(10) ELSE age
    IN IF ~IsNaNR(age) /\ RLe(R(60), age) THEN R(60) ELSE a1

age_bin_of(adjusted_age) ==
    LET b0 == cut(adjusted_age, age_bins, age_labels)
        b1 == IF adjusted_age = R(10) THEN "10-19" ELSE b0
    IN IF adjusted_age = R(60) THEN "60+" ELSE b1

create_age_bins(table) ==
    LET t1 == [i \in 1..Len(table) |->
                 AddCol(table[i], "adjusted_age", adjust_age(table[i]["age"]))]
    IN [i \in 1..Len(t1) |->
          AddCol(t1[i], "age_bin", age_bin_of(t1[i]["adjusted_age"]))]

RawCustomer(id, age, fn, active, fnf, cms) ==
    [customer_id |-> id, age |-> age, FN |-> fn, Active |-> active,
     fashion_news_frequency |-> fnf, club_member_status |-> cms]

(* Tables with missing values in every column, over a few ages.            *)
SparseCustomers(maxRows) ==
    UNION {{[i \in 1..n |-> RawCustomer(i, f[i][1], f[i][2], f[i][3],
                                        f[i][4], f[i][5])] :
              f \in [1..n -> {RNaN, R(29), R(30)} \X {NaN, 1} \X {NaN, 1}
                              \X {NA, "Regularly"} \X {NA, "PRE-CREATE"}]} :
           n \in 0..maxRows}

(* Tables over every whole age, the other columns filled.                  *)
AgedCustomers(maxRows) ==
    UNION {{[i \in 1..n |-> RawCustomer(i, R(f[i]), 1, 1, "Monthly",
                                        "ACTIVE")] :
              f \in [1..n -> 0..MaxAge]} :
           n \in 1..maxRows}

InitCustomers ==
    /\ pc = "loaded"
    /\ customers \in SparseCustomers(MaxCust) \cup AgedCustomers(MaxBinRows)
    /\ transactions = <<>>
    /\ articles = <<>>
    /\ grouped_data = <<>>
    /\ filtered_data = <<>>
    /\ reference_date = NaN
    /\ top_n = NaN
    /\ observed = FALSE
    /\ purchase_rate = <<>>

HandleMissingValues ==
    /\ pc = "loaded"
    /\ customers' = handle_missing_values(customers)
    /\ pc' = "handle_missing_values"
    /\ UNCHANGED <<transactions, articles, grouped_data, filtered_data,
                   reference_date, top_n, observed, purchase_rate>>

CreateAgeBins ==
    /\ pc = "handle_missing_values"
    /\ customers' = create_age_bins(customers)
    /\ pc' = "create_age_bins"
    /\ UNCHANGED <<transactions, articles, grouped_data, filtered_data,
                   reference_date, top_n, observed, purchase_rate>>

SpecCustomers ==
    InitCustomers /\ [][HandleMissingValues \/ CreateAgeBins]_vars

(***************************************************************************)
(* group_articles                                                          *)
(***************************************************************************)
TripleOf(row) ==
    <<row["product_type_name"], row["colour_group_name"],
      row["graphical_appearance_name"]>>

TripleCols ==
    {"product_type_name", "colour_group_name", "graphical_appearance_name"}

type_size(table, key) ==
    Cardinality({i \in 1..Len(table) :
                    table[i]["product_type_name"] = key[1]})

group_size(table, key) ==
    Cardinality({i \in 1..Len(table) : TripleOf(table[i]) = key})

group_articles(table) ==
    LET keys == SortedTriples({TripleOf(table[i]) : i \in 1..Len(table)})
        grouped_articles ==
            [k \in 1..Len(keys) |->
                [product_type_name |-> keys[k][1],
                 colour_group_name |-> keys[k][2],
                 graphical_appearance_name |-> keys[k][3],
                 article_count |-> group_size(table, keys[k])]]
    IN merge(table, grouped_articles, TripleCols, "left",
             [article_count |-> NaN])

ProductTypes == {<<"a">>, <<"a", "b">>}
ColourGroups == {<<"c">>, <<"b", "c">>}
Appearances == {<<"d">>, <<"e">>}

RawArticle(id, t) ==
    [article_id |-> id, product_type_name |-> t[1],
     colour_group_name |-> t[2], graphical_appearance_name |-> t[3]]

ArticleTables(maxRows) ==
    UNION {{[i \in 1..n |-> RawArticle(i, f[i])] :
              f \in [1..n -> ProductTypes \X ColourGroups \X Appearances]} :
           n \in 0..maxRows}

InitArticles ==
    /\ pc = "loaded"
    /\ articles \in ArticleTables(MaxArt)
    /\ transactions = <<>>
    /\ customers = <<>>
    /\ grouped_data = <<>>
    /\ filtered_data = <<>>
    /\ reference_date = NaN
    /\ top_n = NaN
    /\ observed = FALSE
    /\ purchase_rate = <<>>

GroupArticles ==
    /\ pc = "loaded"
    /\ articles' = group_articles(articles)
    /\ pc' = "group_articles"
    /\ UNCHANGED <<transactions, customers, grouped_data, filtered_data,
                   reference_date, top_n, observed, purchase_rate>>

SpecArticles == InitArticles /\ [][GroupArticles]_vars

(***************************************************************************)
(* calculate_elapsed_days                                                  *)
(***************************************************************************)
KeyValues(table, col) == {table[i][col] : i \in 1..Len(table)}

DatesOf(table, col, key) ==
    {table[i]["t_dat"] : i \in {j \in 1..Len(table) : table[j][col] = key}}

first_purchase_date(data, c) == SetMin(DatesOf(data, "customer_id", c))

last_purchase_date(data, c) == SetMax(DatesOf(data, "customer_id", c))

first_sell_date(data, a) == SetMin(DatesOf(data, "article_id", a))

calculate_elapsed_days(table, ref) ==
    LET data == [i \in 1..Len(table) |->
                   [table[i] EXCEPT !["t_dat"] = to_datetime(@)]]
        customer_ids == SortedSeq(KeyValues(data, "customer_id"))
        last_purchase ==
            [k \in 1..Len(customer_ids) |->
                [customer_id |-> customer_ids[k],
                 elapsed_days_since_last_purchase |->
                     ref - last_purchase_date(data, customer_ids[k])]]
        data1 == merge(data, last_purchase, {"customer_id"}, "left",
                       [elapsed_days_since_last_purchase |-> NaN])
        article_ids == SortedSeq(KeyValues(data1, "article_id"))
        first_sell ==
            [k \in 1..Len(article_ids) |->
                [article_id |-> article_ids[k],
                 elapsed_days_since_first_sell |->
                     ref - first_sell_date(data1, article_ids[k])]]
    IN merge(data1, first_sell, {"article_id"}, "left",
             [elapsed_days_since_first_sell |-> NaN])

ElapsedDates == [year : {2024}, month : {1}, day : 1..MaxElapsedDay]
RefDates == 0..MaxRef

ElapsedInputs(maxRows) ==
    UNION {[1..n -> {RawTransaction(d, c, a) :
                        d \in ElapsedDates, c \in {1, 2}, a \in {10, 11}}] :
              n \in 0..maxRows}

InitElapsed ==
    /\ pc = "loaded"
    /\ transactions \in ElapsedInputs(MaxElapsedTx)
    /\ customers = <<>>
    /\ articles = <<>>
    /\ grouped_data = <<>>
    /\ filtered_data = <<>>
    /\ reference_date = NaN
    /\ top_n = NaN
    /\ observed = FALSE
    /\ purchase_rate = <<>>

CalculateElapsedDays ==
    /\ pc = "loaded"
    /\ \E ref \in RefDates :
          /\ transactions' = calculate_elapsed_days(transactions, ref)
          /\ reference_date' = ref
    /\ pc' = "calculate_elapsed_days"
    /\ UNCHANGED <<customers, articles, grouped_data, filtered_data,
                   top_n, observed, purchase_rate>>

SpecElapsed == InitElapsed /\ [][CalculateElapsedDays]_vars

(***************************************************************************)
(* purchase_rate_per_article_per_age                                       *)
(*                                                                         *)
(* groupby(['article_id', 'age_bin']) drops the rows whose age_bin is      *)
(* missing (dropna=True).  age_bin is the categorical column pd.cut made:  *)
(* with observed=False (the default before pandas 3.0) the result holds    *)
(* every category for every article, the unobserved ones with size 0; with *)
(* observed=True (the default from pandas 3.0, and the behaviour for an    *)
(* age_bin column of strings) it holds the observed pairs only.  The       *)
(* parameter obs is that choice.                                           *)
(***************************************************************************)
RECURSIVE Flatten(_)
Flatten(ss) == IF ss = <<>> THEN <<>> ELSE ss[1] \o Flatten(Tail(ss))

BinsOf(temp_data, article, obs) ==
    SelectSeq(age_labels,
              LAMBDA b : \/ ~obs
                         \/ \E i \in 1..Len(temp_data) :
                               /\ temp_data[i]["article_id"] = article
                               /\ temp_data[i]["age_bin"] = b)

purchase_rate_table(trans, cust, obs) ==
    LET temp_data ==
            merge(trans,
                  [i \in 1..Len(cust) |->
                      Project(cust[i], {"customer_id", "age_bin"})],
                  {"customer_id"}, "left", [age_bin |-> NA])
        article_ids == SortedSeq(KeyValues(temp_data, "article_id"))
        total(a) == Cardinality({i \in 1..Len(temp_data) :
                                    temp_data[i]["article_id"] = a})
        size(a, b) == Cardinality({i \in 1..Len(temp_data) :
                                      /\ temp_data[i]["article_id"] = a
                                      /\ temp_data[i]["age_bin"] = b})
        rows(a) == LET bins == BinsOf(temp_data, a, obs)
                   IN [k \in 1..Len(bins) |->
                         [article_id |-> a, age_bin |-> bins[k],
                          purchase_rate |->
                              Normalize(size(a, bins[k]), total(a))]]
    IN Flatten([k \in 1..Len(article_ids) |-> rows(article_ids[k])])

purchase_rate_summary(table) ==
    LET article_ids == SortedSeq(KeyValues(table, "article_id"))
    IN [k \in 1..Len(article_ids) |->
          [article_id |-> article_ids[k],
           purchase_rate |->
               Mean(Column(SelectSeq(table,
                       LAMBDA r : r["article_id"] = article_ids[k]),
                    "purchase_rate"))]]

purchase_rate_per_article_per_age(trans, cust, obs) ==
    merge(trans, purchase_rate_summary(purchase_rate_table(trans, cust, obs)),
          {"article_id"}, "left", [purchase_rate |-> RNaN])

RateCustomers(maxRows) ==
    UNION {{create_age_bins(handle_missing_values(
               [i \in 1..n |-> RawCustomer(i, f[i], 1, 1, "Monthly",
                                           "ACTIVE")])) :
              f \in [1..n -> {RNaN, R(25), R(35)}]} :
           n \in 0..maxRows}

RateTransactions(maxRows) ==
    UNION {[1..n -> {RawTransaction([year |-> 2024, month |-> 1, day |-> 1],
                                    c, a) :
                        c \in 1..(MaxRateCust + 1), a \in {10, 11}}] :
              n \in 0..maxRows}

InitRate ==
    /\ pc = "create_age_bins"
    /\ transactions \in RateTransactions(MaxRateTx)
    /\ customers \in RateCustomers(MaxRateCust)
    /\ articles = <<>>
    /\ grouped_data = <<>>
    /\ filtered_data = <<>>
    /\ reference_date = NaN
    /\ top_n = NaN
    /\ observed = FALSE
    /\ purchase_rate = <<>>

PurchaseRatePerArticlePerAge ==
    /\ pc = "create_age_bins"
    /\ \E obs \in BOOLEAN :
          /\ observed' = obs
          /\ purchase_rate' = purchase_rate_table(transactions, customers, obs)
          /\ transactions' =
                 purchase_rate_per_article_per_age(transactions, customers,
                                                   obs)
    /\ pc' = "purchase_rate_per_article_per_age"
    /\ UNCHANGED <<customers, articles, grouped_data, filtered_data,
                   reference_date, top_n>>

SpecRate == InitRate /\ [][PurchaseRatePerArticlePerAge]_vars

(***************************************************************************)
(* create_grouped_data                                                     *)
(***************************************************************************)
(* Series.mode().iloc[0]: the most frequent non-missing value, the first   *)
(* in sorted order among equally frequent ones; "Unknown" if there is none.*)
Mode(s, missing, order) ==
    LET count(v) == Cardinality({i \in 1..Len(s) : s[i] = v})
        present == SelectSeq(order, LAMBDA v : v # missing /\ count(v) > 0)
        best == SelectSeq(present,
                    LAMBDA v : \A k \in 1..Len(present) :
                                  count(present[k]) <= count(v))
    IN IF best = <<>> THEN "Unknown" ELSE best[1]

DayGroupLess(g, h) ==
    \/ g[1] < h[1]
    \/ g[1] = h[1] /\ NameLess(g[2], h[2])

RECURSIVE SortedDayGroups(_)
SortedDayGroups(S) ==
    IF S = {} THEN <<>>
    ELSE LET m == CHOOSE x \in S : \A y \in S \ {x} : DayGroupLess(x, y)
         IN <<m>> \o SortedDayGroups(S \ {m})

MissingCustomer ==
    [age |-> RNaN, FN |-> NaN, Active |-> NaN, fashion_news_frequency |-> NA,
     club_member_status |-> NA, adjusted_age |-> RNaN, age_bin |-> NA]

product_group_of(row) ==
    row["product_type_name"] \o row["colour_group_name"]
        \o row["graphical_appearance_name"]

Aggregate(rows, key) ==
    [date |-> key[1],
     product_group |-> key[2],
     transaction_count |-> Len(rows),
     avg_price |-> Mean(Column(rows, "price")),
     sales_channel |->
         Mode(Column(rows, "sales_channel_id"), NaN,
              SortedSeq(KeyValues(rows, "sales_channel_id"))),
     most_common_age_bin |-> Mode(Column(rows, "age_bin"), NA, age_labels),
     unique_customers |-> Cardinality(KeyValues(rows, "customer_id")),
     unique_articles_sold |-> Cardinality(KeyValues(rows, "article_id")),
     median_age |-> Median(Column(rows, "age")),
     fashion_news_subscribers |->
         Cardinality({i \in 1..Len(rows) :
                         rows[i]["fashion_news_frequency"] = "Regularly"}),
     first_purchase_days_ago |->
         SetMin(KeyValues(rows, "elapsed_days_since_first_sell")),
     recent_purchase_days_ago |->
         SetMin(KeyValues(rows, "elapsed_days_since_last_purchase")),
     product_type_name |-> rows[1]["product_type_name"],
     colour_group_name |-> rows[1]["colour_group_name"],
     graphical_appearance_name |-> rows[1]["graphical_appearance_name"]]

join_customers_inner(transactions_articles, customers1) ==
    merge(transactions_articles, customers1, {"customer_id"}, "inner",
          MissingCustomer)

join_customers(transactions_articles, customers1) ==
    merge(transactions_articles, customers1, {"customer_id"}, "left",
          MissingCustomer)

(* Lines 33-52: the transactions joined to their article (inner) and      *)
(* their customer (left), labelled with product_group; t_dat becomes date *)
(* (it is a day ordinal already: calculate_elapsed_days converted it).    *)
label_row(row) ==
    LET labelled ==
            AddCol(AddCol(AddCol(AddCol(row,
                "product_group", product_group_of(row)),
                "product_type_keyword", row["product_type_name"]),
                "colour_group_keyword", row["colour_group_name"]),
                "graphical_appearance_keyword",
                row["graphical_appearance_name"])
    IN [c \in ((DOMAIN labelled) \ {"t_dat"}) \cup {"date"} |->
          IF c = "date" THEN row["t_dat"] ELSE labelled[c]]

merge_datasets(customers1, arts, transactions1) ==
    LET transactions_articles ==
            merge(transactions1, arts, {"article_id"}, "inner", <<>>)
        data == join_customers(transactions_articles, customers1)
    IN [i \in 1..Len(data) |-> label_row(data[i])]

(* Lines 55-69: one row per (date, product_group), sorted by the key.      *)
aggregate_by_day_group(data) ==
    LET keys == SortedDayGroups({<<data[i]["date"], data[i]["product_group"]>> :
                                    i \in 1..Len(data)})
    IN [k \in 1..Len(keys) |->
          Aggregate(SelectSeq(data,
                        LAMBDA r : /\ r["date"] = keys[k][1]
                                   /\ r["product_group"] = keys[k][2]),
                    keys[k])]

GroupedArticles(maxRows) ==
    UNION {{[i \in 1..n |-> RawArticle(i, f[i])] :
              f \in [1..n -> ProductTypes \X ColourGroups \X {<<"d">>}]} :
           n \in 0..maxRows}

GroupedCustomers ==
    {<<>>,
     <<RawCustomer(1, R(25), 1, NaN, "Regularly", NA)>>,
     <<RawCustomer(1, RNaN, NaN, 1, NA, "ACTIVE")>>}

SaleTransaction(d, c, a) ==
    [t_dat |-> [year |-> 2024, month |-> 1, day |-> d], customer_id |-> c,
     article_id |-> a, price |-> R(10 * a), sales_channel_id |-> c]

GroupedTransactions(maxRows) ==
    UNION {[1..n -> {SaleTransaction(d, c, a) :
                        d \in {1, 2}, c \in {1, 2}, a \in {1, 2}}] :
              n \in 0..maxRows}

InitGrouped ==
    /\ pc = "loaded"
    /\ transactions \in GroupedTransactions(MaxGroupedTx)
    /\ customers \in GroupedCustomers
    /\ articles \in GroupedArticles(MaxGroupedArt)
    /\ grouped_data = <<>>
    /\ filtered_data = <<>>
    /\ reference_date = NaN
    /\ top_n = NaN
    /\ observed = FALSE
    /\ purchase_rate = <<>>

Todays == {MaxRef, MaxRef + 1}

(* create_grouped_data.  Lines 28-30 change the caller's tables in place   *)
(* (handle_missing_values and create_age_bins assign columns of customers, *)
(* calculate_elapsed_days converts t_dat of transactions before it merges  *)
(* into a new table) with today as the reference date.                    *)
CreateGroupedData ==
    /\ pc = "loaded"
    /\ \E today \in Todays :
       \E customers1 \in {create_age_bins(handle_missing_values(customers))} :
       \E transactions1 \in {calculate_elapsed_days(transactions, today)} :
       \E data \in {merge_datasets(customers1, articles, transactions1)} :
          /\ reference_date' = today
          /\ customers' = customers1
          /\ transactions' = [i \in 1..Len(transactions) |->
                                 [transactions[i] EXCEPT
                                     !["t_dat"] = to_datetime(@)]]
          /\ grouped_data' = aggregate_by_day_group(data)
    /\ pc' = "create_grouped_data"
    /\ UNCHANGED <<articles, filtered_data, top_n, observed, purchase_rate>>

SpecGrouped == InitGrouped /\ [][CreateGroupedData]_vars

(***************************************************************************)
(* get_top_product_groups                                                  *)
(***************************************************************************)
RECURSIVE SumCounts(_)
SumCounts(t) ==
    IF t = <<>> THEN 0 ELSE t[1]["transaction_count"] + SumCounts(Tail(t))

GroupTotal(grouped, g) ==
    SumCounts(SelectSeq(grouped, LAMBDA r : r["product_group"] = g))

(* sort_values(by='transaction_count', ascending=False) with the default   *)
(* kind (quicksort, not stable): any order of the groups in which the      *)
(* totals never increase.                                                  *)
SortedAscending(order, grouped) ==
    \A k \in 1..(Len(order) - 1) :
        GroupTotal(grouped, order[k]) <= GroupTotal(grouped, order[k + 1])

SortedDescending(order, grouped) ==
    \A k \in 1..(Len(order) - 1) :
        GroupTotal(grouped, order[k]) >= GroupTotal(grouped, order[k + 1])

SortOrders(grouped) ==
    LET groups == KeyValues(grouped, "product_group")
        n == Cardinality(groups)
    IN {order \in [1..n -> groups] :
           /\ \A g \in groups : \E k \in 1..n : order[k] = g
           /\ SortedDescending(order, grouped)}

head(s, n) == SubSeq(s, 1, IF n < Len(s) THEN n ELSE Len(s))

get_top_product_groups(grouped, n, order) ==
    LET top_product_groups == head(order, n)
    IN SelectSeq(grouped,
                 LAMBDA r : \E k \in 1..Len(top_product_groups) :
                               top_product_groups[k] = r["product_group"])

TopGroups == {<<"a", "c", "d">>, <<"a", "b", "c", "d">>, <<"a", "c", "e">>}

(* Grouped tables: per (date, product_group) a count, 0 for no row.        *)
GroupedTables(maxCount) ==
    {LET keys == SortedDayGroups({k \in DOMAIN f : f[k] > 0})
     IN [i \in 1..Len(keys) |->
           [date |-> keys[i][1], product_group |-> keys[i][2],
            transaction_count |-> f[keys[i]]]] :
       f \in [{0, 1} \X TopGroups -> 0..maxCount]}

InitTopN ==
    /\ pc = "create_grouped_data"
    /\ grouped_data \in GroupedTables(MaxCount)
    /\ transactions = <<>>
    /\ customers = <<>>
    /\ articles = <<>>
    /\ filtered_data = <<>>
    /\ reference_date = NaN
    /\ top_n = NaN
    /\ observed = FALSE
    /\ purchase_rate = <<>>

GetTopProductGroups ==
    /\ pc = "create_grouped_data"
    /\ \E n \in 0..MaxTopN, order \in SortOrders(grouped_data) :
          /\ top_n' = n
          /\ filtered_data' = get_top_product_groups(grouped_data, n, order)
    /\ pc' = "get_top_product_groups"
    /\ UNCHANGED <<transactions, customers, articles, grouped_data,
                   reference_date, observed, purchase_rate>>

SpecTopN == InitTopN /\ [][GetTopProductGroups]_vars

(***************************************************************************)
(* The pipeline: the operations on the loaded tables.                      *)
(***************************************************************************)
Init ==
    \/ InitWeekly
    \/ InitCustomers
    \/ InitArticles
    \/ InitElapsed
    \/ InitRate
    \/ InitGrouped
    \/ InitTopN

Next ==
    \/ WeeklyAggregation
    \/ HandleMissingValues
    \/ CreateAgeBins
    \/ GroupArticles
    \/ CalculateElapsedDays
    \/ PurchaseRatePerArticlePerAge
    \/ CreateGroupedData
    \/ GetTopProductGroups

Spec == Init /\ [][Next]_vars

\* C1: after weekly_aggregation every row's weekly_transactions equals the
\* number of transactions of the table falling in the row's calendar week
\* (and is therefore identical for all rows of one week).
C1_WeeklyCount ==
    pc = "weekly_aggregation" =>
        \A i \in 1..Len(transactions) :
            transactions[i]["weekly_transactions"] =
                Cardinality({j \in 1..Len(transactions) :
                    PeriodStart(transactions[j]["t_dat"]) =
                    PeriodStart(transactions[i]["t_dat"])})

\* C2: after create_age_bins every customer with a numeric age carries the
\* label of the band that contains adjusted_age: 10..19 "10-19", 20..29
\* "20-29", 30..39 "30-39", 40..49 "40-49", 50..59 "50-59", >= 60 "60+".
BandLabel(x) ==
    IF RLe(R(60), x) THEN "60+"
    ELSE IF RLe(R(50), x) /\ RLe(x, R(59)) THEN "50-59"
    ELSE IF RLe(R(40), x) /\ RLe(x, R(49)) THEN "40-49"
    ELSE IF RLe(R(30), x) /\ RLe(x, R(39)) THEN "30-39"
    ELSE IF RLe(R(20), x) /\ RLe(x, R(29)) THEN "20-29"
    ELSE IF RLe(R(10), x) /\ RLe(x, R(19)) THEN "10-19"
    ELSE "none"

C2_BandLabels ==
    pc = "create_age_bins" =>
        \A i \in 1..Len(customers) :
            LET x == customers[i]["adjusted_age"] IN
            (~IsNaNR(customers[i]["age"]) /\ BandLabel(x) # "none") =>
                customers[i]["age_bin"] = BandLabel(x)

\* C3: after handle_missing_values no row has a missing value in FN, Active,
\* fashion_news_frequency, age or club_member_status.
C3_NoMissing ==
    pc = "handle_missing_values" =>
        \A i \in 1..Len(customers) :
            /\ customers[i]["FN"] # NaN
            /\ customers[i]["Active"] # NaN
            /\ customers[i]["fashion_news_frequency"] # NA
            /\ ~IsNaNR(customers[i]["age"])
            /\ customers[i]["club_member_status"] # NA

\* C6: calculate_elapsed_days with an explicit reference date returns one
\* row per input row, in which elapsed_days_since_last_purchase is the
\* reference date minus the latest date of the row's customer and
\* elapsed_days_since_first_sell the reference date minus the earliest date
\* of the row's article; neither is missing.
ElapsedRowOk(out, i, ref) ==
    LET last == SetMax({out[j]["t_dat"] :
                   j \in {k \in 1..Len(out) :
                            out[k]["customer_id"] = out[i]["customer_id"]}})
        first == SetMin({out[j]["t_dat"] :
                   j \in {k \in 1..Len(out) :
                            out[k]["article_id"] = out[i]["article_id"]}})
    IN /\ out[i]["elapsed_days_since_last_purchase"] = ref - last
       /\ out[i]["elapsed_days_since_first_sell"] = ref - first
       /\ out[i]["elapsed_days_since_last_purchase"] # NaN
       /\ out[i]["elapsed_days_since_first_sell"] # NaN

C6_ElapsedDays ==
    [][pc' = "calculate_elapsed_days" =>
         /\ Len(transactions') = Len(transactions)
         /\ \A i \in 1..Len(transactions') :
              /\ transactions'[i]["t_dat"] =
                     to_datetime(transactions[i]["t_dat"])
              /\ transactions'[i]["customer_id"] =
                     transactions[i]["customer_id"]
              /\ transactions'[i]["article_id"] =
                     transactions[i]["article_id"]
              /\ ElapsedRowOk(transactions', i, reference_date')]_vars

C6_Witness ==
    /\ pc = "calculate_elapsed_days"
    /\ \E i, j \in 1..Len(transactions) :
          /\ transactions[i]["customer_id"] = transactions[j]["customer_id"]
          /\ transactions[i]["article_id"] # transactions[j]["article_id"]
          /\ transactions[i]["t_dat"] < transactions[j]["t_dat"]
          /\ transactions[i]["elapsed_days_since_last_purchase"] =
                 reference_date - transactions[j]["t_dat"]
          /\ transactions[i]["elapsed_days_since_first_sell"] >
                 transactions[i]["elapsed_days_since_last_purchase"]

\* C7: group_articles returns exactly one row per input article, with
\* article_count the number of input articles sharing the article's
\* (product_type_name, colour_group_name, graphical_appearance_name).
C7_ArticleCount ==
    [][pc' = "group_articles" =>
         /\ Len(articles') = Len(articles)
         /\ \A i \in 1..Len(articles') :
              /\ Project(articles'[i], DOMAIN articles[i]) = articles[i]
              /\ articles'[i]["article_count"] =
                     Cardinality({j \in 1..Len(articles) :
                         TripleOf(articles[j]) = TripleOf(articles[i])})]_vars

C7_Witness ==
    /\ pc = "group_articles"
    /\ \E i, j, k \in 1..Len(articles) :
          /\ i # j
          /\ TripleOf(articles[i]) = TripleOf(articles[j])
          /\ TripleOf(articles[i]) # TripleOf(articles[k])
          /\ articles[i]["article_count"] = 2
          /\ articles[k]["article_count"] = 1

\* C4: for every article the per-(article, age_bin) fractions sum to 1, the
\* transactions of unmatched customers forming a bucket of their own, and
\* the purchase_rate of every transaction is in [0, 1].
C4_FractionsSumToOne ==
    pc = "purchase_rate_per_article_per_age" =>
        /\ \A a \in KeyValues(transactions, "article_id") :
              RSum(Column(SelectSeq(purchase_rate,
                              LAMBDA r : r["article_id"] = a),
                          "purchase_rate")) = R(1)
        /\ \A i \in 1..Len(transactions) :
              LET x == transactions[i]["purchase_rate"]
              IN ~IsNaNR(x) /\ RLe(R(0), x) /\ RLe(x, R(1))

\* C9: the purchase_rate of an article is the mean of its fractions over
\* the age bins it was bought in only: an article all of whose purchases
\* fall in k observed age bins gets 1/k on each of its transactions, and
\* the number of transactions is unchanged.
BinOfCustomer(c) ==
    IF \E j \in 1..Len(customers) : customers[j]["customer_id"] = c
    THEN customers[CHOOSE j \in 1..Len(customers) :
                      customers[j]["customer_id"] = c]["age_bin"]
    ELSE NA

ObservedBins(a) ==
    {BinOfCustomer(transactions[i]["customer_id"]) :
        i \in {j \in 1..Len(transactions) :
                  transactions[j]["article_id"] = a}}

C9_MeanOverObservedBins ==
    pc = "purchase_rate_per_article_per_age" =>
        \A i \in 1..Len(transactions) :
            LET bins == ObservedBins(transactions[i]["article_id"])
            IN NA \notin bins =>
                  transactions[i]["purchase_rate"] =
                      Normalize(1, Cardinality(bins))

\* C8: create_grouped_data returns one row per (date, product_group) pair
\* occurring among the transactions with a matching article, its
\* transaction_count the number of such transactions of that date and
\* group, whether or not their customer is in the customer table; the
\* counts add up to the number of transactions with a matching article.
ArticleOf(a) == articles[CHOOSE j \in 1..Len(articles) :
                            articles[j]["article_id"] = a]

Matched ==
    {i \in 1..Len(transactions) :
        \E j \in 1..Len(articles) :
            articles[j]["article_id"] = transactions[i]["article_id"]}

DayGroupOf(i) ==
    <<transactions[i]["t_dat"],
      product_group_of(ArticleOf(transactions[i]["article_id"]))>>

C8_OneRowPerDayGroup ==
    pc = "create_grouped_data" =>
        /\ {<<grouped_data[k]["date"], grouped_data[k]["product_group"]>> :
               k \in 1..Len(grouped_data)} = {DayGroupOf(i) : i \in Matched}
        /\ \A k, l \in 1..Len(grouped_data) :
              (/\ grouped_data[k]["date"] = grouped_data[l]["date"]
               /\ grouped_data[k]["product_group"] =
                      grouped_data[l]["product_group"]) => k = l
        /\ \A k \in 1..Len(grouped_data) :
              grouped_data[k]["transaction_count"] =
                  Cardinality({i \in Matched :
                      DayGroupOf(i) = <<grouped_data[k]["date"],
                                        grouped_data[k]["product_group"]>>})
        /\ SumCounts(grouped_data) = Cardinality(Matched)

C8_Witness ==
    /\ pc = "create_grouped_data"
    /\ Cardinality(Matched) < Len(transactions)
    /\ \E i \in Matched :
          /\ \A j \in 1..Len(customers) :
                customers[j]["customer_id"] # transactions[i]["customer_id"]
          /\ \E k \in 1..Len(grouped_data) :
                /\ DayGroupOf(i) = <<grouped_data[k]["date"],
                                      grouped_data[k]["product_group"]>>
                /\ grouped_data[k]["transaction_count"] = 1
                /\ grouped_data[k]["median_age"] = RNaN

\* C10: the product_group label identifies the article triple: two joined
\* rows have the same product_group if and only if they have the same
\* (product_type_name, colour_group_name, graphical_appearance_name), so
\* the three names of an output row are those of every member of its group.
C10_LabelIdentifiesTriple ==
    pc = "create_grouped_data" =>
        /\ \A i, j \in Matched :
            LET r1 == ArticleOf(transactions[i]["article_id"])
                r2 == ArticleOf(transactions[j]["article_id"])
            IN (product_group_of(r1) = product_group_of(r2))
                   <=> (TripleOf(r1) = TripleOf(r2))
        /\ \A k \in 1..Len(grouped_data) : \A i \in Matched :
              DayGroupOf(i) = <<grouped_data[k]["date"],
                                grouped_data[k]["product_group"]>>
                  => TripleOf(grouped_data[k]) =
                        TripleOf(ArticleOf(transactions[i]["article_id"]))

\* C5: get_top_product_groups(grouped_data, N) returns exactly the input
\* rows of the N product groups with the largest summed transaction_count:
\* at most N groups are retained, and the total of every retained group is
\* at least the total of every excluded group.
Retained == KeyValues(filtered_data, "product_group")

C5_TopGroups ==
    pc = "get_top_product_groups" =>
        LET groups == KeyValues(grouped_data, "product_group")
        IN /\ filtered_data =
                  SelectSeq(grouped_data,
                            LAMBDA r : r["product_group"] \in Retained)
           /\ Len(filtered_data) <= Len(grouped_data)
           /\ Cardinality(Retained) <= top_n
           /\ Cardinality(Retained) = top_n
                  \/ Cardinality(Retained) = Cardinality(groups)
           /\ \A g \in Retained : \A h \in groups \ Retained :
                  GroupTotal(grouped_data, g) >= GroupTotal(grouped_data, h)

C5_Witness ==
    /\ pc = "get_top_product_groups"
    /\ top_n = 2
    /\ Cardinality(KeyValues(grouped_data, "product_group")) = 3
    /\ Len(filtered_data) = 3
    /\ Len(grouped_data) = 5
    /\ \E g \in Retained :
          \E h \in KeyValues(grouped_data, "product_group") \ Retained :
             GroupTotal(grouped_data, g) = GroupTotal(grouped_data, h)
====
